---------------------------- MODULE Spec2Model ----------------------------
(* A model of the incremental backup tool in src/backup/__main__.py:       *)
(* Commands.backup / list_cmd / restore, BackupIndex (the snapshot chain,  *)
(* the logical view and the content index), diff, should_backup and the    *)
(* glob -> regex translation of BackupIndex.list.                          *)
(*                                                                         *)
(* Strings that the code inspects character by character (paths, globs)    *)
(* are sequences of one-character strings.  Digests, file contents and     *)
(* messages are opaque strings.  uuid4() is a counter of fresh ids:        *)
(* id n >= 1 stands for the n-th uuid string drawn, NoId for None.         *)
EXTENDS Integers, Sequences, FiniteSets, TLC

(***************************************************************************)
(* Bounds of the exploration.                                              *)
(***************************************************************************)
MaxRuns == 2          \* backup invocations explored
MaxEdits == 3         \* changes of the local tree explored
MaxFlushAfter == 2    \* flush_after ranges over 1..MaxFlushAfter
MaxRestores == 1      \* restore invocations explored
MaxRunsLong == 3      \* backup commands of the longer histories
MaxEditsLong == 4     \* changes of the local tree in the longer histories
MaxCommands == 2      \* restore commands, and list commands, of SpecCommands
MaxClock == 3         \* the latest time the system clock is set to
MaxClockSets == 1     \* times the system clock is set
MaxKeyLen == 3        \* length of the paths a glob is matched against
MaxGlobLen == 2       \* length of the globs matched
MaxEditsTwo == 3      \* changes of the local tree with two backup processes
MaxRunsTwo == 1       \* backup commands of the first of two processes
MaxRunsOther == 1     \* backup commands of the second process

(***************************************************************************)
(* Characters, paths, contents, digests.                                   *)
(***************************************************************************)
NL == "\n"
SEP == "/"
STAR == "*"

NoId == 0
NoContent == "<absent>"

PathA == <<"a">>
PathB == <<"b">>
PathNL == <<"a", NL, "b">>
PathVenv == <<"v", "e", "n", "v", SEP, "a">>

\* Paths that probe the exclusion filter: a token as the file name, alone
\* and below a directory, and names that only contain a token.
PathEnv == <<".", "e", "n", "v">>
PathDeep == <<"d", SEP, "v", "e", "n", "v">>
PathSub == <<"v", "e", "n", "v", "0">>
PathSubDir == <<"0", "v", "e", "n", "v", SEP, "a">>

FilterPaths == {PathEnv, PathDeep, PathSub, PathSubDir}

Paths == {PathA, PathB, PathNL, PathVenv} \cup FilterPaths

\* The paths the environment creates, rewrites and deletes between commands;
\* the excluded file PathVenv is in the source tree throughout.
EditedPaths == {PathA, PathB, PathNL}

\* File contents: the empty file and a one-byte file.
Contents == {"", "x"}

\* hashlib.md5(content).hexdigest(): never the empty string, also for b"".
Md5Hex(content) ==
  CASE content = "" -> "d41d8cd98f00b204e9800998ecf8427e"
    [] content = "x" -> "9dd4e461268c8034f5c8564e155c67a6"
    [] OTHER -> "00000000000000000000000000000000"

\* file_md5(local, path) for a local tree fs (path |-> content).
file_md5(fs, path) == Md5Hex(fs[path])

(***************************************************************************)
(* Sequence helpers.                                                       *)
(***************************************************************************)
RECURSIVE SplitAcc(_, _, _, _)
SplitAcc(s, sep, cur, acc) ==
  IF s = <<>> THEN Append(acc, cur)
  ELSE IF Head(s) = sep THEN SplitAcc(Tail(s), sep, <<>>, Append(acc, cur))
  ELSE SplitAcc(Tail(s), sep, Append(cur, Head(s)), acc)

\* str.split(sep) for a one-character separator: always at least one part.
Split(s, sep) == SplitAcc(s, sep, <<>>, <<>>)

RECURSIVE JoinWith(_, _)
JoinWith(parts, sep) ==
  IF parts = <<>> THEN <<>>
  ELSE IF Len(parts) = 1 THEN parts[1]
  ELSE parts[1] \o <<sep>> \o JoinWith(Tail(parts), sep)

RECURSIVE Concat(_)
Concat(ss) == IF ss = <<>> THEN <<>> ELSE Head(ss) \o Concat(Tail(ss))

Range(s) == {s[i] : i \in 1..Len(s)}

(***************************************************************************)
(* should_backup: the exclusion filter.                                    *)
(***************************************************************************)
to_exclude ==
  { <<".", "e", "n", "v">>,
    <<".", "v", "e", "n", "v">>,
    <<"v", "e", "n", "v">>,
    <<"v", "i", "r", "t", "u", "a", "l", "e", "n", "v">>,
    <<".", "v", "i", "r", "t", "u", "a", "l", "e", "n", "v">>,
    <<"_", "_", "p", "y", "c", "a", "c", "h", "e", "_", "_">>,
    <<".", "m", "y", "p", "y", "_", "c", "a", "c", "h", "e">>,
    <<"n", "o", "d", "e", "_", "m", "o", "d", "u", "l", "e", "s">>,
    <<".", "D", "S", "_", "S", "t", "o", "r", "e">> }

\* os.path.normpath on a relative path without "..": empty and "."
\* components are dropped; an empty result is ".".
normpath(path) ==
  LET kept == SelectSeq(Split(path, SEP), LAMBDA c : c # <<>> /\ c # <<".">>)
  IN IF kept = <<>> THEN <<".">> ELSE JoinWith(kept, SEP)

\* Line 433 with the file name left out of the components compared.
should_backup_dirs_only(local_file) ==
  LET all == Split(normpath(local_file), SEP)
      parts == Range(SubSeq(all, 1, Len(all) - 1))
  IN Cardinality(parts \cap to_exclude) = 0

should_backup(local_file) ==
  LET parts == Range(Split(normpath(local_file), SEP))
  IN Cardinality(parts \cap to_exclude) = 0


(***************************************************************************)
(* Python dicts keep insertion order: a dict is a sequence of <<key,       *)
(* value>> pairs with distinct keys; assigning to an existing key keeps    *)
(* its position.                                                           *)
(***************************************************************************)
DictKeys(d) == {d[i][1] : i \in 1..Len(d)}

DictHas(d, k) == k \in DictKeys(d)

DictGet(d, k) == d[CHOOSE i \in 1..Len(d) : d[i][1] = k][2]

DictPut(d, k, v) ==
  IF DictHas(d, k)
  THEN [i \in 1..Len(d) |-> IF d[i][1] = k THEN <<k, v>> ELSE d[i]]
  ELSE Append(d, <<k, v>>)

DictValues(d) == [i \in 1..Len(d) |-> d[i][2]]

(***************************************************************************)
(* BackupIndex.list: the glob is split on "*", the literal parts are       *)
(* escaped and joined by ".*" between "^" and "$", and the compiled        *)
(* pattern is matched with re.match.  Without re.DOTALL "." matches any    *)
(* character except a newline; "$" matches at the end of the string and    *)
(* just before a newline that ends the string.                             *)
(***************************************************************************)
LiteralAt(lit, s, pos) ==
  /\ pos + Len(lit) - 1 <= Len(s)
  /\ \A t \in 1..Len(lit) : s[pos + t - 1] = lit[t]

DotMatches(ch) == ch # NL

DollarAt(s, pos) ==
  \/ pos = Len(s) + 1
  \/ pos = Len(s) /\ s[Len(s)] = NL

RECURSIVE MatchParts(_, _, _, _)
MatchParts(parts, i, s, pos) ==
  /\ LiteralAt(parts[i], s, pos)
  /\ LET after == pos + Len(parts[i])
     IN IF i = Len(parts)
        THEN DollarAt(s, after)
        ELSE \E j \in after..(Len(s) + 1) :
               /\ \A t \in after..(j - 1) : DotMatches(s[t])
               /\ MatchParts(parts, i + 1, s, j)

pattern_match(glob, key) == MatchParts(Split(glob, STAR), 1, key, 1)

(***************************************************************************)
(* BackupIndex.  An index object is a record                               *)
(*   snapshots, new_snapshot, last_snapshot_id, index, file_by_md5         *)
(* where index is None (loaded = FALSE) until _get_index has run.          *)
(* A SnapshotFile is [file_id, path, md5]; an IndexSnapshot is             *)
(* [snapshot_id, backup_time, prev_snapshot_id, files].                    *)
(***************************************************************************)
SnapshotFile(file_id, path, md5) ==
  [file_id |-> file_id, path |-> path, md5 |-> md5]

IndexSnapshot(snapshot_id, backup_time, prev_snapshot_id, files) ==
  [snapshot_id |-> snapshot_id, backup_time |-> backup_time,
   prev_snapshot_id |-> prev_snapshot_id, files |-> files]

NewBackupIndex ==
  [snapshots |-> <<>>, new_snapshot |-> <<>>, last_snapshot_id |-> NoId,
   loaded |-> FALSE, index |-> <<>>, file_by_md5 |-> <<>>]

\* The stored file snapshot.json.gz: absent, or the chain it serialises.
NoIndexFile == [present |-> FALSE, chain |-> <<>>]

IndexFile(chain) == [present |-> TRUE, chain |-> chain]

\* json.loads(gzip.decompress(content)) if content else [].
StoredChain(file) == IF file.present THEN file.chain ELSE <<>>

\* The inner loop of _get_index without line 354: the content index is not
\* filled from the stored chain.
RECURSIVE ReplayFilesNoMd5(_, _)
ReplayFilesNoMd5(files, dicts) ==
  IF files = <<>> THEN dicts
  ELSE ReplayFilesNoMd5(Tail(files),
         [index |-> DictPut(dicts.index, Head(files).path, Head(files)),
          file_by_md5 |-> dicts.file_by_md5])

\* The inner loop of _get_index with one more step: a tombstone takes the
\* entries of its path out of the content index.
RECURSIVE ReplayFilesDropDeleted(_, _)
ReplayFilesDropDeleted(files, dicts) ==
  IF files = <<>> THEN dicts
  ELSE ReplayFilesDropDeleted(Tail(files),
         [index |-> DictPut(dicts.index, Head(files).path, Head(files)),
          file_by_md5 |->
            DictPut(SelectSeq(dicts.file_by_md5,
                              LAMBDA kv : ~(Head(files).md5 = ""
                                            /\ kv[2].path = Head(files).path)),
                    Head(files).md5, Head(files))])

\* The inner loop of _get_index over one snapshot's files.
RECURSIVE ReplayFiles(_, _)
ReplayFiles(files, dicts) ==
  IF files = <<>> THEN dicts
  ELSE ReplayFiles(Tail(files),
         [index |-> DictPut(dicts.index, Head(files).path, Head(files)),
          file_by_md5 |-> DictPut(dicts.file_by_md5, Head(files).md5, Head(files))])

\* The loop of _get_index without line 348, as when assert statements are
\* compiled away: the linkage is not looked at.
RECURSIVE ReplayChainUnchecked(_, _)
ReplayChainUnchecked(snaps, acc) ==
  IF snaps = <<>> THEN acc
  ELSE LET dicts == ReplayFiles(Head(snaps).files,
                      [index |-> acc.index, file_by_md5 |-> acc.file_by_md5])
       IN ReplayChainUnchecked(Tail(snaps),
            [ok |-> TRUE,
             last_snapshot_id |-> Head(snaps).snapshot_id,
             index |-> dicts.index,
             file_by_md5 |-> dicts.file_by_md5])

\* The loop of _get_index over the snapshots; ok is FALSE as soon as the
\* linkage assertion fails.
RECURSIVE ReplayChain(_, _)
ReplayChain(snaps, acc) ==
  IF snaps = <<>> \/ ~acc.ok THEN acc
  ELSE IF acc.last_snapshot_id # Head(snaps).prev_snapshot_id
       THEN [acc EXCEPT !.ok = FALSE]
       ELSE LET dicts == ReplayFiles(Head(snaps).files,
                           [index |-> acc.index, file_by_md5 |-> acc.file_by_md5])
            IN ReplayChain(Tail(snaps),
                 [ok |-> TRUE,
                  last_snapshot_id |-> Head(snaps).snapshot_id,
                  index |-> dicts.index,
                  file_by_md5 |-> dicts.file_by_md5])

\* BackupIndex._get_index on an index object bi against the stored file.
\* The result carries ok = FALSE when the assertion raised.
get_index(bi, file) ==
  IF bi.loaded THEN [ok |-> TRUE, bi |-> bi]
  ELSE LET chain == StoredChain(file)
           r == ReplayChain(chain,
                  [ok |-> TRUE, last_snapshot_id |-> bi.last_snapshot_id,
                   index |-> <<>>, file_by_md5 |-> bi.file_by_md5])
       IN [ok |-> r.ok,
           bi |-> [bi EXCEPT !.snapshots = chain,
                             !.last_snapshot_id = r.last_snapshot_id,
                             !.loaded = r.ok,
                             !.index = r.index,
                             !.file_by_md5 = r.file_by_md5]]

\* BackupIndex.list on a loaded index object.
list(bi, glob) ==
  SelectSeq(DictValues(bi.index),
            LAMBDA value : pattern_match(glob, value.path) /\ value.md5 # "")

\* flush that serialises the new snapshot alone, not the chain it loaded.
flush_new_snapshot_only(bi, id, now) ==
  [bi EXCEPT !.snapshots =
               <<IndexSnapshot(id, now, bi.last_snapshot_id, bi.new_snapshot)>>,
             !.new_snapshot = <<>>,
             !.last_snapshot_id = id]

\* flush without line 367: _last_snapshot_id is left as loaded.
flush_keeps_last_id(bi, id, now) ==
  [bi EXCEPT !.snapshots =
               Append(bi.snapshots,
                      IndexSnapshot(id, now, bi.last_snapshot_id, bi.new_snapshot)),
             !.new_snapshot = <<>>]

\* BackupIndex.flush with uuid4() = id and time.time() = now: the new index
\* object, whose snapshots are the chain written to snapshot.json.gz.
flush(bi, id, now) ==
  [bi EXCEPT !.snapshots =
               Append(bi.snapshots,
                      IndexSnapshot(id, now, bi.last_snapshot_id, bi.new_snapshot)),
             !.last_snapshot_id = id,
             !.new_snapshot = <<>>]

\* Line 394: the content index already holds this non-empty digest.
dedup_never(file_by_md5, md5) == FALSE

dedup_hit(file_by_md5, md5) == md5 # "" /\ DictHas(file_by_md5, md5)

\* Line 405: the id of an entry that is not a dedup hit is a fresh uuid4().
file_id_kept_per_path(index, path, id) ==
  IF DictHas(index, path) THEN DictGet(index, path).file_id ELSE id

\* Line 405 with a uuid4() that returns the value it returned before.
file_id_drawn_again(index, path, id) == IF id > 1 THEN id - 1 ELSE id

new_file_id(index, path, id) == id

\* Line 410: whether the caller has to upload the content.
must_upload_inverted(md5) == md5 = ""

must_upload(md5) == md5 # ""

\* add without lines 400-401 and 407-408: the entry is appended to the
\* pending snapshot, and neither dict learns of it.
add_pending_only(bi, path, md5, id) ==
  IF dedup_hit(bi.file_by_md5, md5)
  THEN LET existing == DictGet(bi.file_by_md5, md5)
           entry == SnapshotFile(existing.file_id, path, existing.md5)
       IN [bi |-> [bi EXCEPT !.new_snapshot = Append(bi.new_snapshot, entry)],
           file_id |-> existing.file_id,
           should_copy |-> FALSE,
           minted |-> FALSE]
  ELSE LET entry == SnapshotFile(new_file_id(bi.index, path, id), path, md5)
       IN [bi |-> [bi EXCEPT !.new_snapshot = Append(bi.new_snapshot, entry)],
           file_id |-> entry.file_id,
           should_copy |-> must_upload(md5),
           minted |-> TRUE]

\* BackupIndex.add with uuid4() = id when one is drawn.
add(bi, path, md5, id) ==
  IF dedup_hit(bi.file_by_md5, md5)
  THEN LET existing == DictGet(bi.file_by_md5, md5)
           entry == SnapshotFile(existing.file_id, path, existing.md5)
       IN [bi |-> [bi EXCEPT !.new_snapshot = Append(bi.new_snapshot, entry),
                             !.index = DictPut(bi.index, path, entry),
                             !.file_by_md5 = DictPut(bi.file_by_md5, md5, entry)],
           file_id |-> existing.file_id,
           should_copy |-> FALSE,
           minted |-> FALSE]
  ELSE LET entry == SnapshotFile(new_file_id(bi.index, path, id), path, md5)
       IN [bi |-> [bi EXCEPT !.new_snapshot = Append(bi.new_snapshot, entry),
                             !.index = DictPut(bi.index, path, entry),
                             !.file_by_md5 = DictPut(bi.file_by_md5, md5, entry)],
           file_id |-> entry.file_id,
           should_copy |-> must_upload(md5),
           minted |-> TRUE]

(***************************************************************************)
(* diff.  fs is the local tree (path |-> content or NoContent), order the  *)
(* sequence in which list_files enumerates, bi a loaded index object.      *)
(***************************************************************************)
DiffItem(path, md5) == [path |-> path, md5 |-> md5]

\* An enumeration that comes by every file twice.
list_files_twice(fs, order) ==
  SelectSeq(order \o order, LAMBDA p : fs[p] # NoContent)

list_files(fs, order) == SelectSeq(order, LAMBDA p : fs[p] # NoContent)

\* diff with its two loops exchanged: the local files are compared first.
diff_local_first(fs, order, bi) ==
  LET local_files == SelectSeq(list_files(fs, order), should_backup)
      local_files_set == Range(local_files)
      remote_files == list(bi, <<STAR>>)
      remote_md5(p) ==
        remote_files[CHOOSE i \in 1..Len(remote_files) : remote_files[i].path = p].md5
      gone == SelectSeq(remote_files, LAMBDA r : r.path \notin local_files_set)
      changed == SelectSeq(local_files,
                   LAMBDA l : \/ l \notin {remote_files[i].path : i \in 1..Len(remote_files)}
                              \/ file_md5(fs, l) # remote_md5(l))
  IN [i \in 1..Len(changed) |-> DiffItem(changed[i], file_md5(fs, changed[i]))]
     \o [i \in 1..Len(gone) |-> DiffItem(gone[i].path, "")]

diff(fs, order, bi) ==
  LET local_files == SelectSeq(list_files(fs, order), should_backup)
      local_files_set == Range(local_files)
      remote_files == list(bi, <<STAR>>)
      remote_md5(p) ==
        remote_files[CHOOSE i \in 1..Len(remote_files) : remote_files[i].path = p].md5
      gone == SelectSeq(remote_files, LAMBDA r : r.path \notin local_files_set)
      changed == SelectSeq(local_files,
                   LAMBDA l : \/ l \notin {remote_files[i].path : i \in 1..Len(remote_files)}
                              \/ file_md5(fs, l) # remote_md5(l))
  IN [i \in 1..Len(gone) |-> DiffItem(gone[i].path, "")]
     \o [i \in 1..Len(changed) |-> DiffItem(changed[i], file_md5(fs, changed[i]))]

(***************************************************************************)
(* The remote store: snapshot.json.gz (indexFile) and the obj/<id> blobs   *)
(* (objs, a set of <<id, content>> with one pair per id).                  *)
(***************************************************************************)
ObjIds(store) == {o[1] : o \in store}

ObjContent(store, id) == (CHOOSE o \in store : o[1] = id)[2]

\* A write_file that returns without having stored anything.
write_obj_lost(store, id, content) == store

\* remote_fs.write_file("obj/<id>", file_obj): the key is (over)written.
write_obj(store, id, content) ==
  {o \in store : o[1] # id} \cup {<<id, content>>}

(***************************************************************************)
(* Commands.restore helpers.  A destination is                             *)
(*   exists: the destination root exists; dirs: directories created below  *)
(*   it; files: <<path, content>> written below it.                        *)
(***************************************************************************)
NoDestination == [exists |-> FALSE, dirs |-> {}, files |-> {}]

\* os.path.dirname of a relative path: what precedes the last separator.
dirname(path) ==
  LET parts == Split(path, SEP)
  IN JoinWith(SubSeq(parts, 1, Len(parts) - 1), SEP)

\* The loop of Commands.restore over the listed entries.  Reading a blob
\* that is missing raises after the output file has been created: the file
\* stays empty and the restore stops there.
RECURSIVE restore_files(_, _, _)
restore_files(entries, store, d) ==
  IF entries = <<>> THEN d
  ELSE LET e == Head(entries)
           dir == dirname(e.path)
           made == [d EXCEPT !.dirs = IF dir = <<>> THEN @ ELSE @ \cup {dir}]
       IN IF e.file_id \in ObjIds(store)
          THEN restore_files(Tail(entries), store,
                 [made EXCEPT !.files = @ \cup {<<e.path, ObjContent(store, e.file_id)>>}])
          ELSE [made EXCEPT !.files = @ \cup {<<e.path, "">>}]

\* Line 288 with the check dropped: the root counts as newly made.
root_made_always(d) == TRUE

\* Line 288: mkdirp() of the destination root returns whether it made it.
root_made(d) == ~d.exists

\* glob or "*"
glob_or_star(glob) == IF glob = <<>> THEN <<STAR>> ELSE glob

Globs == {<<STAR>>, <<>>}

(***************************************************************************)
(* Commands.backup: the counter and the two flush conditions.              *)
(***************************************************************************)
\* Line 275 without the wrap.
next_n_no_wrap(n0, k) == n0 + 1

\* Line 275: n = (n + 1) % flush_after.
next_n(n0, k) == (n0 + 1) % k

\* Line 276.
flush_in_loop(n1) == n1 = 0

\* Line 279 without its condition.
flush_at_end_always(n1) == TRUE

\* Line 279.
flush_at_end(n1) == n1 > 0

\* The orders in which list_files may enumerate the local tree.
ListOrders ==
  { <<PathA, PathB, PathNL, PathVenv, PathEnv, PathDeep, PathSub, PathSubDir>>,
    <<PathSubDir, PathSub, PathDeep, PathEnv, PathVenv, PathNL, PathB, PathA>> }

(***************************************************************************)
(* State.                                                                  *)
(***************************************************************************)
VARIABLES
  local,        \* the source tree: path |-> content or NoContent
  indexFile,    \* the remote key snapshot.json.gz
  objs,         \* the remote keys obj/<id>
  nextId,       \* the next uuid4() drawn
  dest,         \* the restore destination
  msgs,         \* what the current or last command printed
  code,         \* the exit code of the last command
  pc,           \* where the running backup stands; "idle" when none runs
  bi,           \* the BackupIndex object of the running command
  flush_after,  \* backup's parameter
  res,          \* the list diff returned
  pos,          \* the diff item the loop is at
  n,            \* backup's counter
  cur,          \* file_id, should_copy of the item being handled
  clock,        \* what time.time() returns when it is read next
  probe,        \* input and result of a function applied on its own
  other,        \* a second backup process against the same remote store
  hist          \* history of the runs, read by the properties only

vars ==
  <<local, indexFile, objs, nextId, dest, msgs, code, pc, bi, flush_after,
    res, pos, n, cur, clock, probe, other, hist>>

NoCur == [file_id |-> NoId, should_copy |-> FALSE]

NoProbe == [fn |-> "none"]

\* The second process before it is started: what Commands.backup holds in
\* its frame (pc, bi, flush_after, res, pos, n, cur), and how often it ran
\* and flushed.
NoOther ==
  [pc |-> "idle", bi |-> NewBackupIndex, flush_after |-> 1, res |-> <<>>,
   pos |-> 1, n |-> 0, cur |-> NoCur, runs |-> 0, flushes |-> 0]

NoHistory ==
  [runs |-> 0, edits |-> 0, restores |-> 0, lists |-> 0,
   lastRun |-> "none", prevRun |-> "none", prevFlushes |-> 0,
   tree |-> [p \in Paths |-> NoContent],
   startIndex |-> NoIndexFile, startObjs |-> {},
   flushes |-> 0, restoredGlob |-> <<>>, restoredRun |-> 0,
   loads |-> 0, blobReads |-> 0, objWrites |-> <<>>, clockSets |-> 0,
   order |-> <<>>]

\* Everything but the source tree, as it is before the first command.
InitRest ==
  /\ indexFile = NoIndexFile
  /\ objs = {}
  /\ nextId = 1
  /\ dest = NoDestination
  /\ msgs = <<>>
  /\ code = 0
  /\ pc = "idle"
  /\ bi = NewBackupIndex
  /\ flush_after = 1
  /\ res = <<>>
  /\ pos = 1
  /\ n = 0
  /\ cur = NoCur
  /\ clock = 1
  /\ probe = NoProbe
  /\ other = NoOther
  /\ hist = NoHistory

Init ==
  /\ local = [p \in Paths |-> IF p = PathVenv THEN "x" ELSE NoContent]
  /\ InitRest

(***************************************************************************)
(* The environment changes the source tree between commands.               *)
(***************************************************************************)
WriteLocal(p, c) ==
  /\ pc = "idle"
  /\ local[p] # c
  /\ local' = [local EXCEPT ![p] = c]
  /\ hist' = [hist EXCEPT !.edits = @ + 1]
  /\ UNCHANGED <<indexFile, objs, nextId, dest, msgs, code, pc, bi,
                 flush_after, res, pos, n, cur, clock, probe, other>>

DeleteLocal(p) ==
  /\ pc = "idle"
  /\ local[p] # NoContent
  /\ local' = [local EXCEPT ![p] = NoContent]
  /\ hist' = [hist EXCEPT !.edits = @ + 1]
  /\ UNCHANGED <<indexFile, objs, nextId, dest, msgs, code, pc, bi,
                 flush_after, res, pos, n, cur, clock, probe, other>>

(***************************************************************************)
(* Commands.backup, one action per step of its loop.                       *)
(***************************************************************************)
\* Lines 262-267: the index object is made, diff loads the chain and
\* computes the work items.  A failed linkage assertion ends the command.
BackupStart(k, order) ==
  /\ pc = "idle"
  /\ LET g == get_index(NewBackupIndex, indexFile)
         items == IF g.ok THEN diff(local, order, g.bi) ELSE <<>>
     IN /\ bi' = IF g.ok THEN g.bi ELSE NewBackupIndex
        /\ res' = items
        /\ pc' = IF ~g.ok THEN "idle" ELSE IF items = <<>> THEN "end" ELSE "add"
        /\ hist' = [hist EXCEPT !.runs = @ + 1,
                                !.prevRun = hist.lastRun,
                                !.prevFlushes = hist.flushes,
                                !.lastRun = IF g.ok THEN "running" ELSE "aborted",
                                !.tree = local,
                                !.startIndex = indexFile,
                                !.startObjs = objs,
                                !.flushes = 0,
                                !.loads = @ + 1,
                                !.order = order]
  /\ flush_after' = k
  /\ pos' = 1
  /\ n' = 0
  /\ cur' = NoCur
  /\ msgs' = <<>>
  /\ code' = IF get_index(NewBackupIndex, indexFile).ok THEN 0 ELSE 1
  /\ UNCHANGED <<local, indexFile, objs, nextId, dest, clock, probe, other>>

\* Line 268: backup_index.add.
BackupAdd ==
  /\ pc = "add"
  /\ LET r == add(bi, res[pos].path, res[pos].md5, nextId)
     IN /\ bi' = r.bi
        /\ cur' = [file_id |-> r.file_id, should_copy |-> r.should_copy]
        /\ nextId' = IF r.minted THEN nextId + 1 ELSE nextId
        /\ pc' = IF r.should_copy THEN "copy" ELSE "count"
  /\ UNCHANGED <<local, indexFile, objs, dest, msgs, code, flush_after, res,
                 pos, n, clock, probe, hist, other>>

\* Lines 270-273: the upload of the local file to obj/<file_id>.
BackupCopy ==
  /\ pc = "copy"
  /\ msgs' = Append(msgs, <<"Copying", res[pos].path>>)
  /\ objs' = write_obj(objs, cur.file_id, local[res[pos].path])
  /\ pc' = "count"
  /\ hist' = [hist EXCEPT !.objWrites = Append(@, cur.file_id)]
  /\ UNCHANGED <<local, indexFile, nextId, dest, code, bi, flush_after, res,
                 pos, n, cur, clock, probe, other>>

\* Lines 275-277 and the loop's step to the next item.
BackupCount ==
  /\ pc = "count"
  /\ LET n1 == next_n(n, flush_after)
         flushed == flush(bi, nextId, clock)
     IN /\ n' = n1
        /\ IF flush_in_loop(n1)
           THEN /\ bi' = flushed
                /\ indexFile' = IndexFile(flushed.snapshots)
                /\ nextId' = nextId + 1
                /\ clock' = clock + 1
                /\ hist' = [hist EXCEPT !.flushes = @ + 1]
           ELSE UNCHANGED <<bi, indexFile, nextId, clock, hist>>
  /\ pos' = pos + 1
  /\ pc' = IF pos + 1 > Len(res) THEN "end" ELSE "add"
  /\ cur' = NoCur
  /\ UNCHANGED <<local, objs, dest, msgs, code, flush_after, res, probe, other>>

\* Lines 279-280, and the command returns.
BackupEnd ==
  /\ pc = "end"
  /\ LET flushed == flush(bi, nextId, clock)
     IN IF flush_at_end(n)
        THEN /\ indexFile' = IndexFile(flushed.snapshots)
             /\ nextId' = nextId + 1
             /\ clock' = clock + 1
             /\ hist' = [hist EXCEPT !.flushes = @ + 1, !.lastRun = "completed"]
        ELSE /\ UNCHANGED <<indexFile, nextId, clock>>
             /\ hist' = [hist EXCEPT !.lastRun = "completed"]
  /\ pc' = "idle"
  /\ bi' = NewBackupIndex
  /\ pos' = 1
  /\ n' = 0
  /\ cur' = NoCur
  /\ UNCHANGED <<local, objs, dest, msgs, code, flush_after, res, probe, other>>

\* The process dies, or a remote write raises a transport error before it
\* takes effect: the command ends where it stands and its index object is
\* lost.
BackupAbort ==
  /\ pc \in {"add", "copy", "count", "end"}
  /\ pc' = "idle"
  /\ bi' = NewBackupIndex
  /\ pos' = 1
  /\ n' = 0
  /\ cur' = NoCur
  /\ code' = 1
  /\ hist' = [hist EXCEPT !.lastRun = "aborted"]
  /\ UNCHANGED <<local, indexFile, objs, nextId, dest, msgs, flush_after, res,
                 clock, probe, other>>

(***************************************************************************)
(* A second process runs Commands.backup against the same remote store     *)
(* and the same source tree: the same steps as above on its own frame.     *)
(* Nothing in the code keeps two runs apart.                               *)
(***************************************************************************)
OtherStart(k, order) ==
  /\ other.pc = "idle"
  /\ LET g == get_index(NewBackupIndex, indexFile)
         items == IF g.ok THEN diff(local, order, g.bi) ELSE <<>>
     IN other' = [pc |-> IF ~g.ok THEN "idle"
                         ELSE IF items = <<>> THEN "end" ELSE "add",
                  bi |-> IF g.ok THEN g.bi ELSE NewBackupIndex,
                  flush_after |-> k, res |-> items, pos |-> 1, n |-> 0,
                  cur |-> NoCur, runs |-> other.runs + 1, flushes |-> 0]
  /\ UNCHANGED <<local, indexFile, objs, nextId, dest, msgs, code, pc, bi,
                 flush_after, res, pos, n, cur, clock, probe, hist>>

OtherAdd ==
  /\ other.pc = "add"
  /\ LET r == add(other.bi, other.res[other.pos].path,
                  other.res[other.pos].md5, nextId)
     IN /\ other' = [other EXCEPT
                       !.bi = r.bi,
                       !.cur = [file_id |-> r.file_id, should_copy |-> r.should_copy],
                       !.pc = IF r.should_copy THEN "copy" ELSE "count"]
        /\ nextId' = IF r.minted THEN nextId + 1 ELSE nextId
  /\ UNCHANGED <<local, indexFile, objs, dest, msgs, code, pc, bi,
                 flush_after, res, pos, n, cur, clock, probe, hist>>

OtherCopy ==
  /\ other.pc = "copy"
  /\ objs' = write_obj(objs, other.cur.file_id, local[other.res[other.pos].path])
  /\ other' = [other EXCEPT !.pc = "count"]
  /\ hist' = [hist EXCEPT !.objWrites = Append(@, other.cur.file_id)]
  /\ UNCHANGED <<local, indexFile, nextId, dest, msgs, code, pc, bi,
                 flush_after, res, pos, n, cur, clock, probe>>

OtherCount ==
  /\ other.pc = "count"
  /\ LET n1 == next_n(other.n, other.flush_after)
         flushed == flush(other.bi, nextId, clock)
         moved == [other EXCEPT
                     !.n = n1,
                     !.pos = @ + 1,
                     !.pc = IF other.pos + 1 > Len(other.res) THEN "end" ELSE "add",
                     !.cur = NoCur]
     IN IF flush_in_loop(n1)
        THEN /\ other' = [moved EXCEPT !.bi = flushed, !.flushes = @ + 1]
             /\ indexFile' = IndexFile(flushed.snapshots)
             /\ nextId' = nextId + 1
             /\ clock' = clock + 1
        ELSE /\ other' = moved
             /\ UNCHANGED <<indexFile, nextId, clock>>
  /\ UNCHANGED <<local, objs, dest, msgs, code, pc, bi, flush_after, res,
                 pos, n, cur, probe, hist>>

OtherEnd ==
  /\ other.pc = "end"
  /\ LET flushed == flush(other.bi, nextId, clock)
         ended == [other EXCEPT !.pc = "idle", !.bi = NewBackupIndex,
                                !.pos = 1, !.n = 0, !.cur = NoCur]
     IN IF flush_at_end(other.n)
        THEN /\ other' = [ended EXCEPT !.flushes = @ + 1]
             /\ indexFile' = IndexFile(flushed.snapshots)
             /\ nextId' = nextId + 1
             /\ clock' = clock + 1
        ELSE /\ other' = ended
             /\ UNCHANGED <<indexFile, nextId, clock>>
  /\ UNCHANGED <<local, objs, dest, msgs, code, pc, bi, flush_after, res,
                 pos, n, cur, probe, hist>>

(***************************************************************************)
(* Commands.restore, the whole command.                                    *)
(***************************************************************************)
Restore(glob) ==
  /\ pc = "idle"
  /\ IF ~root_made(dest)
     THEN /\ msgs' = <<"Destination already exists">>
          /\ code' = 1
          /\ hist' = [hist EXCEPT !.restores = @ + 1,
                                  !.restoredGlob = glob_or_star(glob),
                                  !.restoredRun = hist.runs]
          /\ UNCHANGED dest
     ELSE LET g == get_index(NewBackupIndex, indexFile)
              root == [NoDestination EXCEPT !.exists = TRUE]
              entries == IF g.ok THEN list(g.bi, glob_or_star(glob)) ELSE <<>>
              d == restore_files(entries, objs, root)
          IN /\ msgs' = <<>>
             /\ dest' = d
             /\ code' = IF g.ok /\ \A e \in Range(entries) : e.file_id \in ObjIds(objs)
                        THEN 0 ELSE 1
             /\ hist' = [hist EXCEPT !.restores = @ + 1,
                                     !.restoredGlob = glob_or_star(glob),
                                     !.restoredRun = hist.runs,
                                     !.loads = @ + 1,
                                     !.blobReads = @ + Cardinality(d.files)]
  /\ UNCHANGED <<local, indexFile, objs, nextId, pc, bi, flush_after, res,
                 pos, n, cur, clock, probe, other>>

(***************************************************************************)
(* list_cmd that, having loaded the index, writes it back: a store without *)
(* snapshot.json.gz gets one, holding the empty chain.                     *)
(***************************************************************************)
ListCmdWritingBack(glob) ==
  /\ pc = "idle"
  /\ LET g == get_index(NewBackupIndex, indexFile)
         entries == IF g.ok THEN list(g.bi, glob_or_star(glob)) ELSE <<>>
     IN /\ msgs' = [i \in 1..Len(entries) |-> entries[i].path]
        /\ code' = IF g.ok THEN 0 ELSE 1
  /\ indexFile' = IndexFile(StoredChain(indexFile))
  /\ hist' = [hist EXCEPT !.lists = @ + 1, !.loads = @ + 1]
  /\ UNCHANGED <<local, objs, nextId, dest, pc, bi, flush_after,
                 res, pos, n, cur, clock, probe, other>>

(***************************************************************************)
(* Commands.list_cmd, the whole command: the paths of the matching live    *)
(* entries are printed in the order list returns them.                     *)
(***************************************************************************)
ListCmd(glob) ==
  /\ pc = "idle"
  /\ LET g == get_index(NewBackupIndex, indexFile)
         entries == IF g.ok THEN list(g.bi, glob_or_star(glob)) ELSE <<>>
     IN /\ msgs' = [i \in 1..Len(entries) |-> entries[i].path]
        /\ code' = IF g.ok THEN 0 ELSE 1
  /\ hist' = [hist EXCEPT !.lists = @ + 1, !.loads = @ + 1]
  /\ UNCHANGED <<local, indexFile, objs, nextId, dest, pc, bi, flush_after,
                 res, pos, n, cur, clock, probe, other>>

(***************************************************************************)
(* The system clock is set, between two commands or while one runs:        *)
(* time.time() reads the wall clock, which an administrator or a time      *)
(* service can turn back.                                                  *)
(***************************************************************************)
ClockSet(t) ==
  /\ t # clock
  /\ clock' = t
  /\ hist' = [hist EXCEPT !.clockSets = @ + 1]
  /\ UNCHANGED <<local, indexFile, objs, nextId, dest, msgs, code, pc, bi,
                 flush_after, res, pos, n, cur, probe, other>>

\* The bounds of the exploration, as guards of the environment's choices.
MayEdit(max) == hist.edits < max

MayBackup(max) == hist.runs < max

MayRestore(max) == hist.restores < max

MayList(max) == hist.lists < max

MaySetClock(max) == hist.clockSets < max

MayBackupOther(max) == other.runs < max

Next ==
  \/ \E p \in EditedPaths, c \in Contents : MayEdit(MaxEdits) /\ WriteLocal(p, c)
  \/ \E p \in EditedPaths : MayEdit(MaxEdits) /\ DeleteLocal(p)
  \/ \E k \in 1..MaxFlushAfter, order \in ListOrders :
       MayBackup(MaxRuns) /\ BackupStart(k, order)
  \/ BackupAdd
  \/ BackupCopy
  \/ BackupCount
  \/ BackupEnd
  \/ BackupAbort
  \/ \E glob \in Globs : MayRestore(MaxRestores) /\ Restore(glob)

Spec == Init /\ [][Next]_vars

\* Every backup runs to completion: no process death, no transport error.
NextComplete ==
  \/ \E p \in EditedPaths, c \in Contents : MayEdit(MaxEdits) /\ WriteLocal(p, c)
  \/ \E p \in EditedPaths : MayEdit(MaxEdits) /\ DeleteLocal(p)
  \/ \E k \in 1..MaxFlushAfter, order \in ListOrders :
       MayBackup(MaxRuns) /\ BackupStart(k, order)
  \/ BackupAdd
  \/ BackupCopy
  \/ BackupCount
  \/ BackupEnd
  \/ \E glob \in Globs : MayRestore(MaxRestores) /\ Restore(glob)

SpecComplete == Init /\ [][NextComplete]_vars

(***************************************************************************)
(* Longer histories of completed runs: a file can be backed up, deleted    *)
(* and brought back.                                                       *)
(***************************************************************************)
NextLong ==
  \/ \E p \in EditedPaths, c \in Contents : MayEdit(MaxEditsLong) /\ WriteLocal(p, c)
  \/ \E p \in EditedPaths : MayEdit(MaxEditsLong) /\ DeleteLocal(p)
  \/ \E k \in 1..MaxFlushAfter, order \in ListOrders :
       MayBackup(MaxRunsLong) /\ BackupStart(k, order)
  \/ BackupAdd
  \/ BackupCopy
  \/ BackupCount
  \/ BackupEnd

SpecLong == Init /\ [][NextLong]_vars

(***************************************************************************)
(* The three commands of the tool, restore run more than once, so that a   *)
(* restore can find the destination of an earlier one.                     *)
(***************************************************************************)
NextCommands ==
  \/ \E p \in EditedPaths, c \in Contents : MayEdit(MaxEdits) /\ WriteLocal(p, c)
  \/ \E p \in EditedPaths : MayEdit(MaxEdits) /\ DeleteLocal(p)
  \/ \E k \in 1..MaxFlushAfter, order \in ListOrders :
       MayBackup(MaxRuns) /\ BackupStart(k, order)
  \/ BackupAdd
  \/ BackupCopy
  \/ BackupCount
  \/ BackupEnd
  \/ \E glob \in Globs : MayRestore(MaxCommands) /\ Restore(glob)
  \/ \E glob \in Globs : MayList(MaxCommands) /\ ListCmd(glob)

SpecCommands == Init /\ [][NextCommands]_vars

(***************************************************************************)
(* Backups of a tree whose changing files are the ones that probe the      *)
(* exclusion filter.                                                       *)
(***************************************************************************)
NextFilter ==
  \/ \E p \in FilterPaths, c \in Contents : MayEdit(MaxEdits) /\ WriteLocal(p, c)
  \/ \E p \in FilterPaths : MayEdit(MaxEdits) /\ DeleteLocal(p)
  \/ \E k \in 1..MaxFlushAfter, order \in ListOrders :
       MayBackup(MaxRuns) /\ BackupStart(k, order)
  \/ BackupAdd
  \/ BackupCopy
  \/ BackupCount
  \/ BackupEnd
  \/ BackupAbort

SpecFilter == Init /\ [][NextFilter]_vars

(***************************************************************************)
(* Backups on a machine whose clock can be set.  In the specifications     *)
(* above the clock only advances: every read of it returns a later time    *)
(* than the read before.                                                   *)
(***************************************************************************)
NextClock ==
  \/ \E p \in EditedPaths, c \in Contents : MayEdit(MaxEdits) /\ WriteLocal(p, c)
  \/ \E p \in EditedPaths : MayEdit(MaxEdits) /\ DeleteLocal(p)
  \/ \E k \in 1..MaxFlushAfter, order \in ListOrders :
       MayBackup(MaxRuns) /\ BackupStart(k, order)
  \/ BackupAdd
  \/ BackupCopy
  \/ BackupCount
  \/ BackupEnd
  \/ \E t \in 1..MaxClock : MaySetClock(MaxClockSets) /\ ClockSet(t)

SpecClock == Init /\ [][NextClock]_vars

(***************************************************************************)
(* The selection of BackupIndex.list on its own: a glob as list_cmd and    *)
(* restore receive it, and the path of an entry.                           *)
(***************************************************************************)
Strings(alphabet, maxLen) == UNION {[1..k -> alphabet] : k \in 0..maxLen}

GlobInputs == Strings({"a", SEP, STAR}, MaxGlobLen)

KeyInputs == Strings({"a", SEP, NL}, MaxKeyLen)

InitGlob ==
  /\ local = [p \in Paths |-> NoContent]
  /\ indexFile = NoIndexFile
  /\ objs = {}
  /\ nextId = 1
  /\ dest = NoDestination
  /\ msgs = <<>>
  /\ code = 0
  /\ pc = "idle"
  /\ bi = NewBackupIndex
  /\ flush_after = 1
  /\ res = <<>>
  /\ pos = 1
  /\ n = 0
  /\ cur = NoCur
  /\ clock = 1
  /\ other = NoOther
  /\ hist = NoHistory
  /\ \E glob \in GlobInputs, key \in KeyInputs :
       probe = [fn |-> "select", glob |-> glob, key |-> key,
                done |-> FALSE, result |-> FALSE]

\* Lines 294 and 377-390: glob or "*", compiled and matched against the key.
ApplySelect ==
  /\ probe.fn = "select"
  /\ ~probe.done
  /\ probe' = [probe EXCEPT !.done = TRUE,
                            !.result = pattern_match(glob_or_star(probe.glob),
                                                     probe.key)]
  /\ UNCHANGED <<local, indexFile, objs, nextId, dest, msgs, code, pc, bi,
                 flush_after, res, pos, n, cur, clock, hist, other>>

NextGlob == ApplySelect

SpecGlob == InitGlob /\ [][NextGlob]_vars

(***************************************************************************)
(* Commands against a remote store that something else has written: the    *)
(* stored chain is sound, or its first snapshot names a predecessor, or    *)
(* its second snapshot names another predecessor than the first.           *)
(***************************************************************************)
SoundChain ==
  << IndexSnapshot(1, 1, NoId, <<SnapshotFile(2, PathA, Md5Hex("x"))>>) >>

HeadlessChain ==
  << IndexSnapshot(1, 1, 5, <<SnapshotFile(2, PathA, Md5Hex("x"))>>) >>

ForkedChain ==
  << IndexSnapshot(1, 1, NoId, <<SnapshotFile(2, PathA, Md5Hex("x"))>>),
     IndexSnapshot(3, 2, 5, <<SnapshotFile(4, PathB, Md5Hex(""))>>) >>

StoredChains == {SoundChain, HeadlessChain, ForkedChain}

InitStored ==
  /\ local = [p \in Paths |-> IF p = PathVenv THEN "x" ELSE NoContent]
  /\ \E chain \in StoredChains : indexFile = IndexFile(chain)
  /\ objs = {<<2, "x">>, <<4, "">>}
  /\ nextId = 6
  /\ dest = NoDestination
  /\ msgs = <<>>
  /\ code = 0
  /\ pc = "idle"
  /\ bi = NewBackupIndex
  /\ flush_after = 1
  /\ res = <<>>
  /\ pos = 1
  /\ n = 0
  /\ cur = NoCur
  /\ clock = 3
  /\ probe = NoProbe
  /\ other = NoOther
  /\ hist = NoHistory

NextStored ==
  \/ \E p \in EditedPaths, c \in Contents : MayEdit(MaxEdits) /\ WriteLocal(p, c)
  \/ \E p \in EditedPaths : MayEdit(MaxEdits) /\ DeleteLocal(p)
  \/ \E k \in 1..MaxFlushAfter, order \in ListOrders :
       MayBackup(MaxRuns) /\ BackupStart(k, order)
  \/ BackupAdd
  \/ BackupCopy
  \/ BackupCount
  \/ BackupEnd
  \/ \E glob \in Globs : MayRestore(MaxRestores) /\ Restore(glob)
  \/ \E glob \in Globs : MayList(MaxRestores) /\ ListCmd(glob)

SpecStored == InitStored /\ [][NextStored]_vars

(***************************************************************************)
(* Two backup processes whose loads, uploads and flushes interleave in     *)
(* every way.  The source tree changes while neither runs.                 *)
(***************************************************************************)
NextTwo ==
  \/ \E p \in EditedPaths, c \in Contents :
       MayEdit(MaxEditsTwo) /\ other.pc = "idle" /\ WriteLocal(p, c)
  \/ \E p \in EditedPaths :
       MayEdit(MaxEditsTwo) /\ other.pc = "idle" /\ DeleteLocal(p)
  \/ \E k \in 1..MaxFlushAfter, order \in ListOrders :
       MayBackup(MaxRunsTwo) /\ BackupStart(k, order)
  \/ BackupAdd
  \/ BackupCopy
  \/ BackupCount
  \/ BackupEnd
  \/ \E k \in 1..MaxFlushAfter, order \in ListOrders :
       MayBackupOther(MaxRunsOther) /\ OtherStart(k, order)
  \/ OtherAdd
  \/ OtherCopy
  \/ OtherCount
  \/ OtherEnd

SpecTwo == Init /\ [][NextTwo]_vars


(***************************************************************************)
(* What the properties read.                                               *)
(***************************************************************************)
\* The chain stored at snapshot.json.gz and all its entries in chain order.
Chain == StoredChain(indexFile)

ChainEntries == Concat([i \in 1..Len(Chain) |-> Chain[i].files])

\* list("*") as a fresh command would return it from the stored chain.
ListedNow == list(get_index(NewBackupIndex, indexFile).bi, <<STAR>>)

\* The local paths that passed the filter when the last backup started,
\* with their contents.
BackedUpTree ==
  {<<p, hist.tree[p]>> : p \in {q \in Paths : hist.tree[q] # NoContent /\ should_backup(q)}}

WellLinked(c) ==
  /\ Len(c) > 0 => c[1].prev_snapshot_id = NoId
  /\ \A i \in 2..Len(c) : c[i].prev_snapshot_id = c[i - 1].snapshot_id

LastBackupCompleted == pc = "idle" /\ hist.lastRun = "completed"

(***************************************************************************)
(* C1  Chain linkage: in the chain stored at snapshot.json.gz the first    *)
(* snapshot has prev_snapshot_id = None, every later one names the         *)
(* snapshot_id of the snapshot before it, and the snapshot_id values are   *)
(* non-empty and pairwise distinct.                                        *)
(***************************************************************************)
C1_ChainLinkage ==
  /\ WellLinked(Chain)
  /\ \A i \in 1..Len(Chain) : Chain[i].snapshot_id # NoId
  /\ \A i, j \in 1..Len(Chain) :
       i # j => Chain[i].snapshot_id # Chain[j].snapshot_id

\* A second run has appended to a chain it loaded, which by then holds
\* three snapshots or more.
C1_Witness ==
  /\ hist.runs >= 2
  /\ hist.startIndex.present
  /\ hist.flushes >= 1
  /\ Len(Chain) >= 3

(***************************************************************************)
(* C2  Round-trip: after completed backups, restore("*") into a fresh      *)
(* destination creates exactly one file per local path that passed the     *)
(* filter at the last backup, with the bytes the file had then, and no     *)
(* file for a deleted or excluded path.                                    *)
(***************************************************************************)
C2_RoundTrip ==
  ( /\ LastBackupCompleted
    /\ hist.restores >= 1
    /\ hist.restoredRun = hist.runs
    /\ hist.restoredGlob = <<STAR>>
    /\ code = 0 )
  => dest.files = BackedUpTree

(***************************************************************************)
(* C3  Logical view correctness: after a completed backup the paths of     *)
(* list("*") are the local paths that passed the filter at that backup,    *)
(* and each entry's md5 is the digest of the file's content then.          *)
(***************************************************************************)
C3_ListEqualsLocal ==
  LastBackupCompleted =>
    /\ {e.path : e \in Range(ListedNow)} = {f[1] : f \in BackedUpTree}
    /\ \A e \in Range(ListedNow) :
         hist.tree[e.path] # NoContent => e.md5 = Md5Hex(hist.tree[e.path])

(***************************************************************************)
(* C4  Upload before commit: in every reachable state, also while a        *)
(* backup runs or after it was interrupted, every non-tombstone entry of   *)
(* the stored chain has its blob at obj/<file_id>, and the blob's content  *)
(* has the entry's md5.                                                    *)
(***************************************************************************)
C4_UploadBeforeCommit ==
  \A e \in Range(ChainEntries) :
    e.md5 # "" =>
      /\ e.file_id \in ObjIds(objs)
      /\ Md5Hex(ObjContent(objs, e.file_id)) = e.md5

\* A run was interrupted after it had committed uploaded entries.
C4_Witness ==
  /\ pc = "idle"
  /\ hist.lastRun = "aborted"
  /\ hist.flushes >= 1
  /\ \E e \in Range(ChainEntries) : e.md5 # ""

(***************************************************************************)
(* C5  Deduplicated identity: any two entries of the chain with the same   *)
(* non-empty md5 have the same file_id.                                    *)
(***************************************************************************)
C5_SameDigestSameId ==
  \A e1, e2 \in Range(ChainEntries) :
    (e1.md5 = e2.md5 /\ e1.md5 # "") => e1.file_id = e2.file_id

\* Two paths with the same content were committed by two different runs.
C5_Witness ==
  /\ hist.startIndex.present
  /\ \E e1 \in Range(Concat([i \in 1..Len(hist.startIndex.chain) |->
                               hist.startIndex.chain[i].files])) :
       \E i \in (Len(hist.startIndex.chain) + 1)..Len(Chain) :
         \E e2 \in Range(Chain[i].files) :
           e1.md5 # "" /\ e1.md5 = e2.md5 /\ e1.path # e2.path

(***************************************************************************)
(* C6  One blob per content: when every backup runs to completion, no two  *)
(* obj/ keys hold content with the same digest.                            *)
(***************************************************************************)
C6_OneBlobPerContent ==
  \A o1, o2 \in objs : Md5Hex(o1[2]) = Md5Hex(o2[2]) => o1[1] = o2[1]

\* The same content was committed under two paths, in two runs, and both
\* contents of the model have a blob.
C6_Witness ==
  /\ LastBackupCompleted
  /\ Cardinality(objs) = 2
  /\ C5_Witness

FlushedItems ==
  SubSeq(res, 1, IF hist.flushes * flush_after < Len(res)
                 THEN hist.flushes * flush_after ELSE Len(res))

AppendedEntries ==
  Concat([i \in 1..(Len(Chain) - Len(StoredChain(hist.startIndex))) |->
            Chain[Len(StoredChain(hist.startIndex)) + i].files])

StartView == get_index(NewBackupIndex, hist.startIndex).bi.index

C8_CrashAfterPartialCommit ==
  /\ (pc = "idle" /\ hist.lastRun = "aborted" /\ hist.flushes >= 1) =>
       /\ WellLinked(Chain)
       /\ Len(Chain) = Len(StoredChain(hist.startIndex)) + hist.flushes
       /\ SubSeq(Chain, 1, Len(StoredChain(hist.startIndex)))
            = StoredChain(hist.startIndex)
       /\ [i \in 1..Len(AppendedEntries) |->
             DiffItem(AppendedEntries[i].path, AppendedEntries[i].md5)]
            = FlushedItems
  /\ (LastBackupCompleted /\ hist.prevRun = "aborted" /\ hist.prevFlushes >= 1) =>
       /\ \A i \in 1..Len(res) :
            ~ ( /\ res[i].md5 # ""
                /\ DictHas(StartView, res[i].path)
                /\ DictGet(StartView, res[i].path).md5 = res[i].md5 )
       /\ {e.path : e \in Range(ListedNow)} = {f[1] : f \in BackedUpTree}

(***************************************************************************)
(* C9  Crash before the first commit: as long as a backup run has not      *)
(* flushed, snapshot.json.gz is what it was when the run started, and the  *)
(* only change of the remote store is the addition of obj/ blobs that no   *)
(* entry of the stored chain references.                                   *)
(***************************************************************************)
C9_NothingBeforeFirstFlush ==
  (hist.runs >= 1 /\ hist.flushes = 0) =>
    /\ indexFile = hist.startIndex
    /\ hist.startObjs \subseteq objs
    /\ \A o \in objs \ hist.startObjs :
         /\ o[1] \notin ObjIds(hist.startObjs)
         /\ o[1] \notin {e.file_id : e \in Range(ChainEntries)}

\* A run against a stored chain stopped before its first flush, after it
\* had uploaded a blob.
C9_Witness ==
  /\ pc = "idle"
  /\ hist.lastRun = "aborted"
  /\ hist.flushes = 0
  /\ hist.startIndex.present
  /\ objs # hist.startObjs

(***************************************************************************)
(* C10  Partial index commit: a completed backup whose diff has N >= 1     *)
(* items, with flush_after = k, appends exactly ceil(N/k) snapshots; each  *)
(* holds k entries except the last, which holds N - k*(ceil(N/k) - 1);     *)
(* their files lists concatenated are the diff in emission order, and      *)
(* none is empty.                                                          *)
(***************************************************************************)
CeilDiv(a, b) == (a + b - 1) \div b

C10_PartialIndexCommit ==
  (LastBackupCompleted /\ Len(res) >= 1) =>
    LET N == Len(res)
        k == flush_after
        m == CeilDiv(N, k)
        before == StoredChain(hist.startIndex)
    IN /\ Len(Chain) = Len(before) + m
       /\ SubSeq(Chain, 1, Len(before)) = before
       /\ \A j \in 1..m :
            /\ Len(Chain) >= Len(before) + j
            /\ Len(Chain[Len(before) + j].files)
                 = IF j < m THEN k ELSE N - k * (m - 1)
            /\ Chain[Len(before) + j].files # <<>>
       /\ [i \in 1..Len(AppendedEntries) |->
             DiffItem(AppendedEntries[i].path, AppendedEntries[i].md5)] = res

\* Three items with flush_after = 2: snapshots of two entries and of one.
C10_Witness ==
  /\ LastBackupCompleted
  /\ Len(res) = 3
  /\ flush_after = 2
  /\ hist.flushes = 2

(***************************************************************************)
(* C11  Tombstones: when a path that is live in the logical view is        *)
(* missing from the local tree at backup time, the completed run appends   *)
(* exactly one entry for that path, with md5 = "" and a file_id that no    *)
(* other entry of the chain has; no blob is ever written at that file_id,  *)
(* and the blob of the deleted file's earlier entry stays in place.        *)
(***************************************************************************)
LiveAtStart(p) == DictHas(StartView, p) /\ DictGet(StartView, p).md5 # ""

AppendedFor(p) == SelectSeq(AppendedEntries, LAMBDA e : e.path = p)

C11_Tombstones ==
  LastBackupCompleted =>
    \A p \in Paths :
      (LiveAtStart(p) /\ hist.tree[p] = NoContent) =>
        /\ Len(AppendedFor(p)) = 1
        /\ AppendedFor(p)[1].md5 = ""
        /\ Cardinality({i \in 1..Len(ChainEntries) :
                          ChainEntries[i].file_id = AppendedFor(p)[1].file_id}) = 1
        /\ AppendedFor(p)[1].file_id \notin ObjIds(objs)
        /\ AppendedFor(p)[1].file_id \notin Range(hist.objWrites)
        /\ \E o \in objs \cap hist.startObjs : o[1] = DictGet(StartView, p).file_id

(***************************************************************************)
(* C12  Restore refuses an existing destination: a restore invoked while   *)
(* the destination root exists reports exactly "Destination already        *)
(* exists", sets exit code 1 and does nothing further: it reads neither    *)
(* the remote index nor a blob, and the destination keeps its directories  *)
(* and files.                                                              *)
(***************************************************************************)
RestoreInvoked == hist'.restores = hist.restores + 1

C12_RestoreRefusesExisting ==
  [][(RestoreInvoked /\ dest.exists) =>
       /\ msgs' = <<"Destination already exists">>
       /\ code' = 1
       /\ dest' = dest
       /\ hist'.loads = hist.loads
       /\ hist'.blobReads = hist.blobReads
       /\ indexFile' = indexFile
       /\ objs' = objs]_vars

\* A second restore was refused: the destination holds the files of the
\* first one.
C12_Witness ==
  /\ hist.restores = 2
  /\ dest.files # {}
  /\ msgs = <<"Destination already exists">>
  /\ code = 1

(***************************************************************************)
(* Glob matching as the specification words it: the key is the glob's      *)
(* literal segments in order, the first at the start of the key, the last  *)
(* at its end, with any run of characters, empty or not, between two       *)
(* segments.                                                               *)
(***************************************************************************)
RECURSIVE SegmentsFit(_, _, _, _)
SegmentsFit(segs, i, key, from) ==
  IF i = Len(segs)
  THEN IF i = 1
       THEN key = segs[1]
       ELSE /\ Len(key) - Len(segs[i]) + 1 >= from
            /\ LiteralAt(segs[i], key, Len(key) - Len(segs[i]) + 1)
  ELSE \E at \in (IF i = 1 THEN {1} ELSE from..(Len(key) + 1)) :
         /\ LiteralAt(segs[i], key, at)
         /\ SegmentsFit(segs, i + 1, key, at + Len(segs[i]))

GlobSelects(glob, key) == SegmentsFit(Split(glob, STAR), 1, key, 1)

(***************************************************************************)
(* C13  list(glob) returns exactly the logical-view entries whose path     *)
(* matches the glob and whose md5 is non-empty: the newest chain entry of  *)
(* each path, never a path whose newest entry is a tombstone, ordered by   *)
(* the first time each path was registered in the chain.                   *)
(***************************************************************************)
ListGlobs == {<<STAR>>, <<"a", STAR>>, <<STAR, "b">>, <<"a">>}

FirstRegistrations ==
  SelectSeq([i \in 1..Len(ChainEntries) |-> i],
            LAMBDA i : \A j \in 1..(i - 1) :
                         ChainEntries[j].path # ChainEntries[i].path)

NewestEntry(p) ==
  ChainEntries[CHOOSE i \in 1..Len(ChainEntries) :
                 /\ ChainEntries[i].path = p
                 /\ \A j \in (i + 1)..Len(ChainEntries) : ChainEntries[j].path # p]

LogicalView ==
  [k \in 1..Len(FirstRegistrations) |->
     NewestEntry(ChainEntries[FirstRegistrations[k]].path)]

ListedFor(glob) == list(get_index(NewBackupIndex, indexFile).bi, glob)

C13_ListSelection ==
  \A glob \in ListGlobs :
    ListedFor(glob)
      = SelectSeq(LogicalView,
                  LAMBDA e : e.md5 # "" /\ GlobSelects(glob, e.path))

(***************************************************************************)
(* C14  Exclusion filter: no entry of any snapshot has a path with a       *)
(* component equal to one of the nine exclusion tokens, the file name      *)
(* included; and after a completed backup every local path of which a      *)
(* component only contains a token, none being equal to one, is listed     *)
(* with the digest of its content.                                         *)
(***************************************************************************)
Components(path) == Split(path, SEP)

HasTokenComponent(path) ==
  \E i \in 1..Len(Components(path)) : Components(path)[i] \in to_exclude

ContainsToken(comp) ==
  \E t \in to_exclude : \E at \in 1..Len(comp) : LiteralAt(t, comp, at)

OnlyContainsToken(path) ==
  /\ ~HasTokenComponent(path)
  /\ \E i \in 1..Len(Components(path)) : ContainsToken(Components(path)[i])

C14_ExclusionFilter ==
  /\ Cardinality(to_exclude) = 9
  /\ \A e \in Range(ChainEntries) : ~HasTokenComponent(e.path)
  /\ LastBackupCompleted =>
       \A p \in Paths :
         (hist.tree[p] # NoContent /\ OnlyContainsToken(p)) =>
           \E e \in Range(ListedNow) :
             e.path = p /\ e.md5 = Md5Hex(hist.tree[p])

\* A completed backup of a tree that held a file named by a token, a file
\* named by a token below a directory, and a file whose name contains one.
C14_Witness ==
  /\ LastBackupCompleted
  /\ hist.tree[PathEnv] # NoContent
  /\ hist.tree[PathDeep] # NoContent
  /\ hist.tree[PathSub] # NoContent
  /\ \E e \in Range(ChainEntries) : e.path = PathSub

(***************************************************************************)
(* C15  backup_time is strictly increasing along the stored chain: of any  *)
(* two consecutive snapshots, also two flushed by the same backup          *)
(* invocation, the earlier has the smaller backup_time.                    *)
(***************************************************************************)
C15_BackupTimeIncreasing ==
  \A i \in 1..(Len(Chain) - 1) : Chain[i].backup_time < Chain[i + 1].backup_time

(***************************************************************************)
(* C16  Content index after a tombstone.  Stated of a registration by a    *)
(* backup whose loaded chain holds an entry with digest d and, later, a    *)
(* tombstone of that entry's path.                                         *)
(***************************************************************************)
StartEntries ==
  Concat([i \in 1..Len(StoredChain(hist.startIndex)) |->
            StoredChain(hist.startIndex)[i].files])

DeletedDigest(d) ==
  \E i, j \in 1..Len(StartEntries) :
    /\ i < j
    /\ StartEntries[i].md5 = d
    /\ StartEntries[j].path = StartEntries[i].path
    /\ StartEntries[j].md5 = ""

\* add has returned for the item res[pos]; cur holds what it returned.
Registered == pc \in {"copy", "count"}

RegisteredDeletedDigest ==
  /\ Registered
  /\ res[pos].md5 # ""
  /\ DeletedDigest(res[pos].md5)

\* C16 as claimed: a file with digest d that appears after the tombstone is
\* registered with a newly minted object id and must_upload = true.
C16_NewIdAfterTombstone ==
  RegisteredDeletedDigest =>
    /\ cur.should_copy
    /\ cur.file_id \notin {e.file_id : e \in Range(StartEntries)}

\* C16 amended: a file with digest d that appears after the tombstone is
\* registered with the object id of the earlier entries with digest d and
\* must_upload = false; the blob stored under that id is the one uploaded
\* before the deletion.
C16_ReusedIdAfterTombstone ==
  RegisteredDeletedDigest =>
    /\ ~cur.should_copy
    /\ \E e \in Range(StartEntries) : e.md5 = res[pos].md5
    /\ \A e \in Range(StartEntries) :
         e.md5 = res[pos].md5 => cur.file_id = e.file_id
    /\ \E o \in objs \cap hist.startObjs : o[1] = cur.file_id

\* The third backup registers, under another path, the content of a file
\* that the first backed up and the second recorded as deleted.
C16_Witness ==
  /\ RegisteredDeletedDigest
  /\ hist.runs = 3
  /\ \E i, j \in 1..Len(StartEntries) :
       /\ i < j
       /\ StartEntries[i].md5 = res[pos].md5
       /\ StartEntries[j].path = StartEntries[i].path
       /\ StartEntries[j].md5 = ""
       /\ StartEntries[i].path # res[pos].path

(***************************************************************************)
(* C17  Glob matching: a glob selects a path iff the path is the glob's    *)
(* literal segments in order, separated by arbitrary, possibly empty,      *)
(* runs of characters that may contain '/', the first segment at the       *)
(* start and the last at the end of the path; an empty glob given to list  *)
(* or restore selects what "*" selects.                                    *)
(***************************************************************************)
C17_GlobMatching ==
  (probe.fn = "select" /\ probe.done) =>
    probe.result
      = GlobSelects(IF probe.glob = <<>> THEN <<STAR>> ELSE probe.glob, probe.key)

(***************************************************************************)
(* C18  Registration result: add(path, md5) with a non-empty md5 that the  *)
(* content index holds, from the loaded chain or from an earlier           *)
(* registration of the same run, flushed or not, returns the existing      *)
(* file_id and False; otherwise it returns a newly minted file_id and      *)
(* (md5 is non-empty).  Either way exactly one entry for path is appended  *)
(* to the pending snapshot and becomes the index entry of path.            *)
(***************************************************************************)
\* What the run has seen before it registers res[pos]: the entries of the
\* chain it loaded, those it flushed and those still pending.
SeenEntries == StartEntries \o AppendedEntries \o bi.new_snapshot

DigestSeen(md5) == md5 # "" /\ \E e \in Range(SeenEntries) : e.md5 = md5

C18_RegistrationResult ==
  [][(pc = "add" /\ pc' \in {"copy", "count"}) =>
       LET item == res[pos]
           entry == SnapshotFile(cur'.file_id, item.path, item.md5)
       IN /\ DigestSeen(item.md5) =>
               /\ \A e \in Range(SeenEntries) :
                    e.md5 = item.md5 => cur'.file_id = e.file_id
               /\ ~cur'.should_copy
          /\ ~DigestSeen(item.md5) =>
               /\ cur'.file_id # NoId
               /\ cur'.file_id \notin {e.file_id : e \in Range(SeenEntries)}
               /\ cur'.file_id \notin ObjIds(objs)
               /\ cur'.file_id \notin {Chain[i].snapshot_id : i \in 1..Len(Chain)}
               /\ cur'.should_copy = (item.md5 # "")
          /\ bi'.new_snapshot = Append(bi.new_snapshot, entry)
          /\ DictHas(bi'.index, item.path)
          /\ DictGet(bi'.index, item.path) = entry
          /\ \A p \in DictKeys(bi.index) \ {item.path} :
               DictGet(bi'.index, p) = DictGet(bi.index, p)]_vars

\* A run has registered content that an entry still pending holds, and
\* was told not to upload it.
C18_Witness ==
  /\ pc = "count"
  /\ res[pos].md5 # ""
  /\ ~cur.should_copy
  /\ Len(bi.new_snapshot) >= 2
  /\ \E i \in 1..(Len(bi.new_snapshot) - 1) :
       bi.new_snapshot[i].md5 = res[pos].md5
  /\ \A e \in Range(StartEntries \o AppendedEntries) : e.md5 # res[pos].md5

(***************************************************************************)
(* C19  Blobs are write-once: across backup, list and restore commands     *)
(* each obj/<id> key is written at most once, and a blob that exists keeps *)
(* its content and is never removed; list and restore write no blob.       *)
(***************************************************************************)
NoRepeat(seq) == \A i, j \in 1..Len(seq) : i # j => seq[i] # seq[j]

C19_BlobsWriteOnce ==
  [][/\ objs \subseteq objs'
     /\ Cardinality(ObjIds(objs')) = Cardinality(objs')
     /\ NoRepeat(hist'.objWrites)
     /\ ObjIds(objs') = Range(hist'.objWrites)
     /\ (hist'.lists # hist.lists \/ hist'.restores # hist.restores) =>
          (objs' = objs /\ hist'.objWrites = hist.objWrites)]_vars

\* Two backups, the second of a file whose content had changed, a list and
\* a restore have run: two blobs were written, one per content.
C19_Witness ==
  /\ LastBackupCompleted
  /\ hist.runs = 2
  /\ hist.lists >= 1
  /\ hist.restores >= 1
  /\ Len(hist.objWrites) = 2
  /\ \E e1, e2 \in Range(ChainEntries) :
       e1.path = e2.path /\ e1.md5 # "" /\ e2.md5 # "" /\ e1.md5 # e2.md5

(***************************************************************************)
(* C20  Diff emits exactly the deltas: with L the local paths that pass    *)
(* the filter and R the live logical view, diff emits {l, d} for a local   *)
(* path l iff l is not live in R or R[l].md5 differs from the digest d of  *)
(* l's content, emits {r, ""} for r iff r is live in R and not in L, and   *)
(* emits at most one item per path; a path that is live and unchanged      *)
(* gets no item and no entry in a new snapshot.                            *)
(***************************************************************************)
FilteredLocal == {p \in Paths : hist.tree[p] # NoContent /\ should_backup(p)}

ExpectedDeltas ==
  {DiffItem(l, Md5Hex(hist.tree[l])) :
     l \in {p \in FilteredLocal :
              \/ ~LiveAtStart(p)
              \/ DictGet(StartView, p).md5 # Md5Hex(hist.tree[p])}}
  \cup {DiffItem(r, "") : r \in {p \in Paths : LiveAtStart(p) /\ p \notin FilteredLocal}}

LiveUnchanged(p) ==
  /\ LiveAtStart(p)
  /\ p \in FilteredLocal
  /\ DictGet(StartView, p).md5 = Md5Hex(hist.tree[p])

C20_DiffEmitsDeltas ==
  hist.runs >= 1 =>
    /\ Range(res) = ExpectedDeltas
    /\ \A i, j \in 1..Len(res) : i # j => res[i].path # res[j].path
    /\ \A i \in 1..Len(res) : ~LiveUnchanged(res[i].path)
    /\ \A e \in Range(AppendedEntries) : ~LiveUnchanged(e.path)

(***************************************************************************)
(* C21  Tombstones first: in the entries one backup invocation appends,    *)
(* taken in chain order across the snapshots it flushes, every tombstone   *)
(* precedes every add or modify entry; the tombstones are in logical-view  *)
(* order and the add and modify entries in the order in which the local    *)
(* tree was enumerated.                                                    *)
(***************************************************************************)
PosIn(seq, x) == CHOOSE i \in 1..Len(seq) : seq[i] = x

StartViewPaths == [i \in 1..Len(StartView) |-> StartView[i][1]]

C21_TombstonesFirst ==
  hist.runs >= 1 =>
    \A i, j \in 1..Len(AppendedEntries) :
      i < j =>
        LET first == AppendedEntries[i]
            second == AppendedEntries[j]
        IN /\ ~(first.md5 # "" /\ second.md5 = "")
           /\ (first.md5 = "" /\ second.md5 = "") =>
                PosIn(StartViewPaths, first.path) < PosIn(StartViewPaths, second.path)
           /\ (first.md5 # "" /\ second.md5 # "") =>
                PosIn(hist.order, first.path) < PosIn(hist.order, second.path)

\* A run that enumerated the tree in the second order flushed three
\* snapshots of one entry: a tombstone, then two files.
C21_Witness ==
  /\ LastBackupCompleted
  /\ hist.order[1] = PathSubDir
  /\ hist.flushes = 3
  /\ Len(AppendedEntries) = 3
  /\ AppendedEntries[1].md5 = ""
  /\ AppendedEntries[2].md5 # ""
  /\ AppendedEntries[3].md5 # ""

(***************************************************************************)
(* C22  Corrupt chain is fatal: while the stored chain has a snapshot      *)
(* whose prev_snapshot_id is not the snapshot_id of the snapshot before    *)
(* it, or a first snapshot with a prev_snapshot_id, backup, list and       *)
(* restore each stop at the load with a failure and write nothing to the   *)
(* remote store: the chain is neither extended nor overwritten.            *)
(***************************************************************************)
CommandInvoked ==
  \/ hist'.runs # hist.runs
  \/ hist'.lists # hist.lists
  \/ hist'.restores # hist.restores

C22_CorruptChainFatal ==
  [][~WellLinked(StoredChain(indexFile)) =>
       /\ indexFile' = indexFile
       /\ objs' = objs
       /\ CommandInvoked =>
            /\ code' = 1
            /\ pc' = "idle"
            /\ bi' = NewBackupIndex
            /\ dest'.files = {}]_vars

\* Backup, list and restore have each been run against a chain whose
\* second snapshot does not name the first.
C22_Witness ==
  /\ ~WellLinked(Chain)
  /\ Len(Chain) = 2
  /\ hist.runs >= 1
  /\ hist.lists >= 1
  /\ hist.restores >= 1
  /\ hist.tree[PathB] # NoContent
  /\ code = 1

(***************************************************************************)
(* C23  Append-only chain: with a single writer every rewrite of           *)
(* snapshot.json.gz stores the chain stored before, unchanged and in the   *)
(* same order, followed by exactly one new snapshot; no snapshot and no    *)
(* entry of the stored chain is modified, reordered or dropped.            *)
(***************************************************************************)
ChainAfter == StoredChain(indexFile')

C23_AppendOnlyChain ==
  [][/\ (indexFile' # indexFile \/ hist'.flushes = hist.flushes + 1) =>
          /\ indexFile'.present
          /\ Len(ChainAfter) = Len(Chain) + 1
          /\ SubSeq(ChainAfter, 1, Len(Chain)) = Chain
     /\ Len(ChainAfter) >= Len(Chain)
     /\ \A i \in 1..Len(Chain) : ChainAfter[i] = Chain[i]]_vars

\* The second run has rewritten the file twice, each time on top of what
\* the first run had stored.
C23_Witness ==
  /\ hist.runs = 2
  /\ hist.flushes = 2
  /\ Len(StoredChain(hist.startIndex)) >= 1
  /\ Len(Chain) = Len(StoredChain(hist.startIndex)) + 2
  /\ \E e \in Range(StartEntries) : e.md5 # ""

(***************************************************************************)
(* C24  Path uniqueness per snapshot: no snapshot of the stored chain      *)
(* holds two entries with the same path, also when flush_after splits a    *)
(* run's diff over several snapshots.                                      *)
(***************************************************************************)
C24_PathUniquePerSnapshot ==
  \A s \in 1..Len(Chain) :
    \A i, j \in 1..Len(Chain[s].files) :
      i # j => Chain[s].files[i].path # Chain[s].files[j].path

\* A run has split its diff over a snapshot of two entries and a snapshot
\* of one, and a path of the chain has entries in two snapshots.
C24_Witness ==
  /\ flush_after = 2
  /\ hist.flushes = 2
  /\ \E s \in 1..Len(Chain) : Len(Chain[s].files) = 2
  /\ \E s, t \in 1..Len(Chain) :
       /\ s < t
       /\ \E e \in Range(Chain[s].files), f \in Range(Chain[t].files) : e.path = f.path

(***************************************************************************)
(* C25  Frame conditions: list and restore never write to the remote       *)
(* store, snapshot.json.gz and every obj/ blob staying as they are, and    *)
(* backup and restore never add, remove or change a file of the local      *)
(* source tree.                                                            *)
(***************************************************************************)
ListOrRestoreStep ==
  hist'.lists # hist.lists \/ hist'.restores # hist.restores

BackupStep == pc # "idle" \/ hist'.runs # hist.runs

C25_FrameConditions ==
  [][/\ ListOrRestoreStep => (indexFile' = indexFile /\ objs' = objs)
     /\ (BackupStep \/ hist'.restores # hist.restores) => local' = local]_vars

\* After two backups and a restore that wrote files, list has printed the
\* paths of a store that holds a chain and blobs.
C25_Witness ==
  /\ hist.runs = 2
  /\ hist.restores >= 1
  /\ hist.lists >= 1
  /\ dest.files # {}
  /\ indexFile.present
  /\ objs # {}
  /\ msgs # <<>>
  /\ msgs[1] \in Paths

(***************************************************************************)
(* C26  Overlapping writers keep the index well-formed: when two backup    *)
(* runs against the same remote store interleave their loads, uploads and  *)
(* flushes in any way, every content stored at snapshot.json.gz is a       *)
(* well-linked chain in which every non-tombstone entry has its blob at    *)
(* obj/<file_id>.                                                          *)
(***************************************************************************)
C26_OverlappingWritersWellFormed ==
  /\ indexFile.present =>
       /\ Chain[1].prev_snapshot_id = NoId
       /\ \A i \in 1..(Len(Chain) - 1) :
            Chain[i + 1].prev_snapshot_id = Chain[i].snapshot_id
  /\ \A s \in 1..Len(Chain) :
       \A e \in Range(Chain[s].files) :
         e.md5 # "" => \E o \in objs : o[1] = e.file_id

Running(at) == at \in {"add", "copy", "count", "end"}

\* Both processes are running and both have flushed; the stored chain is
\* the second one's, and a snapshot the first one flushed is not in it.
C26_Witness ==
  /\ Running(pc)
  /\ Running(other.pc)
  /\ hist.flushes >= 1
  /\ other.flushes >= 1
  /\ Chain = other.bi.snapshots
  /\ \E s \in Range(bi.snapshots) : s \notin Range(Chain)

=============================================================================
